---- MODULE Spec2Model ----
(***************************************************************************)
(* Deferred, re-resolvable localised text (src/src/localisation.py):       *)
(* TransToken / PluralTransToken / JoinTransToken values, the module-level *)
(* translator and TRANSLATIONS tables, set_language, load_basemodui and    *)
(* the registry of applied widgets, menu entries and language callbacks.   *)
(*                                                                         *)
(* A Python str is a sequence of one-character strings, a Python dict is a *)
(* sequence of <<key, value>> pairs in insertion order with unique keys,   *)
(* and the outcome of a call that may raise is a record [ok, val] or       *)
(* [ok, err].                                                              *)
(***************************************************************************)
EXTENDS Integers, Sequences, FiniteSets, TLC

\* ---------------------------------------------------------------- bounds
\* Number of calls in one behaviour of the registry specification.
MaxSteps == 3
\* Longest list of children of the Join tokens drawn as inputs.
MaxChildren == 1
\* Number of set_language and load_basemodui calls around the str() and bool()
\* calls of the token specification.
MaxStrSteps == 2

\* ------------------------------------------------------- python values
Ok(v) == [ok |-> TRUE, val |-> v]
Raise(e) == [ok |-> FALSE, err |-> e]

\* str literals used by the model, as character sequences.
S_empty == << >>
S_space == <<" ">>
S_Hi == <<"H", "i">>
S_Yo == <<"Y", "o">>
S_Ab == <<"A", "b">>
S_Zz == <<"Z", "z">>
S_HiA == <<"H", "i", " ", "{", "a", "}">>
S_YoA == <<"{", "a", "}", " ", "Y", "o">>
S_YoB == <<"Y", "o", " ", "{", "b", "}">>
S_a == <<"a">>
S_b == <<"b">>
S_n == <<"n">>
S_1 == <<"1">>
S_2 == <<"2">>
S_x == <<"x">>
S_y == <<"y">>
S_YES == <<"Y", "E", "S">>
\* the catalog key of the font override
S_SANS ==
    <<"_", "_", "L", "A", "N", "G", "_", "U", "S", "E", "_", "S", "A", "N", "S", "_", "S", "E", "R", "I", "F", "_", "_">>
S_dummy == <<"d", "u", "m", "m", "y">>

\* dict: does the key occur
DictHas(d, k) == \E i \in 1..Len(d) : d[i][1] = k

\* dict[k], for a key that occurs
DictGet(d, k) == d[CHOOSE i \in 1..Len(d) : d[i][1] = k][2]

\* d[k] = v: an existing key keeps its position, a new key goes last
DictSet(d, k, v) ==
    IF DictHas(d, k)
    THEN [i \in 1..Len(d) |-> IF d[i][1] = k THEN <<k, v>> ELSE d[i]]
    ELSE Append(d, <<k, v>>)

\* d.pop(k, None)
DictPop(d, k) == SelectSeq(d, LAMBDA p : p[1] # k)

\* d.items() as a set, what frozenset(d.items()) holds
DictItems(d) == {d[i] : i \in 1..Len(d)}

\* d1 == d2 of two dicts: same size and every key of d1 is in d2 with an equal value
DictEq(d1, d2) ==
    /\ Len(d1) = Len(d2)
    /\ \A i \in 1..Len(d1) : DictHas(d2, d1[i][1]) /\ DictGet(d2, d1[i][1]) = d1[i][2]

RECURSIVE DictMerge(_, _)
\* {**d1, **d2}
DictMerge(d1, d2) ==
    IF d2 = << >> THEN d1
    ELSE DictMerge(DictSet(d1, Head(d2)[1], Head(d2)[2]), Tail(d2))

\* index of the first "}" of s at or after i, 0 when there is none
CloseAt(s, i) ==
    IF \E j \in i..Len(s) : s[j] = "}"
    THEN CHOOSE j \in i..Len(s) : s[j] = "}" /\ \A m \in i..(j - 1) : s[m] # "}"
    ELSE 0

RECURSIVE FormatFrom(_, _, _, _)
\* str.format_map scanning s from position i with acc already produced
FormatFrom(s, i, params, acc) ==
    IF i > Len(s) THEN Ok(acc)
    ELSE IF s[i] = "{" THEN
        IF i < Len(s) /\ s[i + 1] = "{" THEN FormatFrom(s, i + 2, params, Append(acc, "{"))
        ELSE LET j == CloseAt(s, i + 1)
                 name == SubSeq(s, i + 1, j - 1)
             IN  IF j = 0 THEN Raise("ValueError")
                 ELSE IF name = << >> \/ \E m \in 1..Len(name) : name[m] = "{"
                      THEN Raise("ValueError")
                 ELSE IF ~DictHas(params, name) THEN Raise("KeyError")
                 ELSE FormatFrom(s, j + 1, params, acc \o DictGet(params, name))
    ELSE IF s[i] = "}" THEN
        IF i < Len(s) /\ s[i + 1] = "}" THEN FormatFrom(s, i + 2, params, Append(acc, "}"))
        ELSE Raise("ValueError")
    ELSE FormatFrom(s, i + 1, params, Append(acc, s[i]))

\* result.format_map(self.parameters)
format_map(s, params) == FormatFrom(s, 1, params, << >>)

\* int(x) of a str
int(s) ==
    IF s = S_1 THEN Ok(1)
    ELSE IF s = S_2 THEN Ok(2)
    ELSE Raise("ValueError")

\* ------------------------------------------------------------ constants
NS_UI == <<"<", "B", "E", "E", "2", ">">>
NS_GAME == <<"<", "P", "O", "R", "T", "A", "L", "2", ">">>
NS_UNTRANSLATED == <<"<", "N", "O", "T", "R", "A", "N", "S", "L", "A", "T", "E", ">">>
PETI_KEY_PREFIX ==
    <<"P", "O", "R", "T", "A", "L", "2", "_", "P", "u", "z", "z", "l", "e",
      "E", "d", "i", "t", "o", "r">>
\* a package-supplied namespace
NS_pkg == <<"p", "k", "g">>
\* keys of Valve's editor strings
S_PETI_k == PETI_KEY_PREFIX \o <<"_", "k">>
S_PETI_m == PETI_KEY_PREFIX \o <<"_", "m">>
EmptyMapping == << >>

startswith(s, prefix) ==
    Len(s) >= Len(prefix) /\ SubSeq(s, 1, Len(prefix)) = prefix

Digits == {"0", "1", "2", "3", "4", "5", "6", "7", "8", "9"}
Letters ==
    {"a", "b", "c", "d", "e", "f", "g", "h", "i", "j", "k", "l", "m", "n", "o", "p",
     "q", "r", "s", "t", "u", "v", "w", "x", "y", "z",
     "A", "B", "C", "D", "E", "F", "G", "H", "I", "J", "K", "L", "M", "N", "O", "P",
     "Q", "R", "S", "T", "U", "V", "W", "X", "Y", "Z"}
\* s.isalnum() of one character
isalnum(c) == c \in Letters \cup Digits
\* s.isspace() of a whole str: non-empty and every character is whitespace
isspace(s) == s # << >> /\ \A i \in 1..Len(s) : s[i] \in {" ", "\t", "\n"}

\* ------------------------------------------------ the compiled catalogs
\* gettext_mod._expand_lang(lang_code): locale.normalize() of the code, then
\* every combination of language, territory and codeset, most specific first
expand_lang(lang_code) ==
    CASE lang_code = "fr_FR" -> <<"fr_FR.ISO8859-1", "fr_FR", "fr.ISO8859-1", "fr">>
      [] lang_code = "fr" -> <<"fr_FR.ISO8859-1", "fr_FR", "fr.ISO8859-1", "fr">>
      [] lang_code = "ja" -> <<"ja_JP.eucJP", "ja_JP", "ja.eucJP", "ja">>
      [] lang_code = "en" -> <<"en_US.ISO8859-1", "en_US", "en.ISO8859-1", "en">>
      [] lang_code = "de" -> <<"de_DE.ISO8859-1", "de_DE", "de.ISO8859-1", "de">>
      [] OTHER -> <<lang_code>>

\* the language codes set_language is called with
LangCodes == {"fr_FR", "ja", "en", "de", "dummy"}

\* the message table of the .mo file of a language, msgid -> msgstr
MoFile(lang) ==
    CASE lang = "fr" -> << <<S_Hi, S_Yo>>, <<S_HiA, S_YoA>>, <<S_Ab, S_Zz>>, <<S_Zz, S_Ab>> >>
      [] lang = "fr_FR" -> << <<S_Hi, S_Ab>> >>
      [] lang = "de" -> << <<S_Hi, S_Zz>>, <<S_HiA, S_YoB>> >>
      [] lang = "ja" -> << <<S_SANS, S_YES>>, <<S_Hi, S_Zz>> >>
      [] lang = "dummy" -> << <<S_Hi, S_Yo>> >>
      [] OTHER -> << >>

\* the plural entries of the .mo file, msgid1 -> <<form for n = 1, form for n # 1>>
MoPlural(lang) ==
    CASE lang = "fr" -> << <<S_Hi, <<S_Yo, S_Zz>> >> >>
      [] OTHER -> << >>

\* the sets of catalog files the install location may hold
Installs == {{"fr", "ja", "de"}, {"fr_FR", "fr", "dummy"}}

NullTranslations == [lang |-> "", kind |-> "NullTranslations"]
GNUTranslations(lang) == [lang |-> lang, kind |-> "GNUTranslations"]

\* DummyTranslations.gettext
\* a placeholder of '#' for every character of the message
DummyTranslations_gettext_AllHashes(message) == [i \in 1..Len(message) |-> "#"]

\* DummyTranslations.gettext
DummyTranslations_gettext(message) ==
    [i \in 1..Len(message) |->
        IF isalnum(message[i]) \/ message[i] \in {"{", "}"} THEN "#" ELSE message[i]]

DummyTranslations == [lang |-> "", kind |-> "DummyTranslations"]

\* translator.gettext(message) for each class of translator
gettext(translator, message) ==
    CASE translator.kind = "DummyTranslations" -> DummyTranslations_gettext(message)
      [] translator.kind = "GNUTranslations" ->
            IF DictHas(MoFile(translator.lang), message)
            THEN DictGet(MoFile(translator.lang), message)
            ELSE message
      [] OTHER -> message

\* translator.ngettext(msgid1, msgid2, n) for each class of translator
ngettext(translator, msgid1, msgid2, n) ==
    CASE translator.kind = "DummyTranslations" ->
            DummyTranslations_gettext(IF n = 1 THEN msgid1 ELSE msgid2)
      [] translator.kind = "GNUTranslations" ->
            IF DictHas(MoPlural(translator.lang), msgid1)
            THEN DictGet(MoPlural(translator.lang), msgid1)[IF n = 1 THEN 1 ELSE 2]
            ELSE IF n = 1 THEN msgid1 ELSE msgid2
      [] OTHER -> IF n = 1 THEN msgid1 ELSE msgid2

\* '#' * len(s)
Hashes(s) == [i \in 1..Len(s) |-> "#"]

\* --------------------------------------------------------------- tokens
TransToken(namespace, token, parameters) ==
    [namespace |-> namespace, token |-> token,
     parameters |-> IF parameters = << >> THEN EmptyMapping ELSE parameters,
     type |-> "TransToken"]

\* str.endswith
endswith(s, suffix) ==
    Len(s) >= Len(suffix) /\ SubSeq(s, Len(s) - Len(suffix) + 1, Len(s)) = suffix

RECURSIVE lstrip(_)
\* str.lstrip(): leading whitespace removed
lstrip(s) ==
    IF s # << >> /\ isspace(<<Head(s)>>) THEN lstrip(Tail(s)) ELSE s

\* str.split(sep, 1): the parts before and after the first sep, or the string alone
split_once(s, sep) ==
    LET at == {i \in 1..Len(s) : startswith(SubSeq(s, i, Len(s)), sep)}
    IN  IF at = {} THEN <<s>>
        ELSE LET i == CHOOSE i \in at : \A j \in at : i <= j
             IN  <<SubSeq(s, 1, i - 1), SubSeq(s, i + Len(sep), Len(s))>>

\* TransToken.parse. The unpacking of the split rebinds package before the
\* test for the special namespaces, so the except branch builds the token with
\* the bracketed name; when there is no "]]" the unpacking itself fails and
\* package is still the argument.
parse(package, text) ==
    IF startswith(text, <<"[", "[">>)
    THEN LET parts == split_once(SubSeq(text, 3, Len(text)), <<"]", "]">>)
         IN  IF Len(parts) # 2 THEN TransToken(package, text, EmptyMapping)
             ELSE IF startswith(parts[1], <<"<">>) \/ endswith(parts[1], <<">">>)
             THEN TransToken(parts[1], text, EmptyMapping)
             ELSE TransToken(IF parts[1] = << >> THEN NS_UNTRANSLATED ELSE parts[1],
                             lstrip(parts[2]), EmptyMapping)
    ELSE IF startswith(text, PETI_KEY_PREFIX) THEN TransToken(NS_GAME, text, EmptyMapping)
    ELSE TransToken(package, text, EmptyMapping)

PluralTransToken(namespace, token, parameters, token_plural) ==
    [namespace |-> namespace, token |-> token,
     parameters |-> IF parameters = << >> THEN EmptyMapping ELSE parameters,
     type |-> "PluralTransToken", token_plural |-> token_plural]

JoinTransToken(namespace, token, parameters, children, sort) ==
    [namespace |-> namespace, token |-> token,
     parameters |-> IF parameters = << >> THEN EmptyMapping ELSE parameters,
     type |-> "JoinTransToken", children |-> children, sort |-> sort]

\* PluralTransToken(...) that refuses the namespaces str() does not allow
PluralTransToken_init_Validated(namespace, token, parameters, token_plural) ==
    IF namespace \in {NS_UI, NS_UNTRANSLATED}
    THEN Ok(PluralTransToken(namespace, token, parameters, token_plural))
    ELSE Raise("ValueError")

\* the call PluralTransToken(...): the __init__ attrs generates has no validator
PluralTransToken_init(namespace, token, parameters, token_plural) ==
    Ok(PluralTransToken(namespace, token, parameters, token_plural))

\* TransToken.ui
ui(token, kwargs) == TransToken(NS_UI, token, kwargs)
\* TransToken.ui_plural
ui_plural(singular, plural, kwargs) == PluralTransToken(NS_UI, singular, kwargs, plural)
\* TransToken.from_valve
from_valve(text) == TransToken(NS_GAME, text, EmptyMapping)
\* TransToken.untranslated
untranslated(text) == TransToken(NS_UNTRANSLATED, text, EmptyMapping)

\* join as TransToken defines it, for every class of token
join_Inherited(self, children, sort) ==
    Ok(JoinTransToken(self.namespace, self.token, self.parameters, children, sort))

\* the class attributes ui, ui_plural, untranslated and from_valve of
\* PluralTransToken are None: calling one raises TypeError
PluralTransToken_factory(name, text) ==
    IF name \in {"ui", "ui_plural", "untranslated", "from_valve"}
    THEN Raise("TypeError")
    ELSE Ok(PluralTransToken(NS_UI, text, EmptyMapping, text))

\* TransToken.join and PluralTransToken.join
join(self, children, sort) ==
    IF self.type = "PluralTransToken" THEN Raise("NotImplementedError")
    ELSE Ok(JoinTransToken(self.namespace, self.token, self.parameters, children, sort))

\* format with the merge the other way round: {**kwargs, **self.parameters}
format_KeepOriginal(self, kwargs) ==
    [self EXCEPT !.parameters =
        IF DictMerge(kwargs, self.parameters) = << >> THEN EmptyMapping
        ELSE DictMerge(kwargs, self.parameters)]

\* TransToken.format: attrs.evolve(self, parameters={**self.parameters, **kwargs})
format(self, kwargs) ==
    [self EXCEPT !.parameters =
        IF DictMerge(self.parameters, kwargs) = << >> THEN EmptyMapping
        ELSE DictMerge(self.parameters, kwargs)]

\* __bool__ that takes only the empty key for blank
TransToken_bool_EmptyOnly(self) == self.token # << >>

\* TransToken.__bool__
TransToken_bool(self) == self.token # << >> /\ ~isspace(self.token)

\* the printable ASCII characters in code point order (the grave accent left out)
ASCII ==
    <<
      " ", "!", "\"", "#", "$", "%", "&", "'", "(", ")", "*", "+", ",", "-", ".", "/",
      "0", "1", "2", "3", "4", "5", "6", "7", "8", "9", ":", ";", "<", "=", ">", "?",
      "@", "A", "B", "C", "D", "E", "F", "G", "H", "I", "J", "K", "L", "M", "N", "O",
      "P", "Q", "R", "S", "T", "U", "V", "W", "X", "Y", "Z", "[", "\\", "]", "^", "_",
      "a", "b", "c", "d", "e", "f", "g", "h", "i", "j", "k", "l", "m", "n", "o",
      "p", "q", "r", "s", "t", "u", "v", "w", "x", "y", "z", "{", "|", "}", "~" >>

\* the rank of a character in code point order, which orders as ord(c) does
ord(c) == CHOOSE i \in 1..Len(ASCII) : ASCII[i] = c

RECURSIVE StrLess(_, _)
\* s1 < s2 of two str: ordinal, character by character
StrLess(s1, s2) ==
    IF s2 = << >> THEN FALSE
    ELSE IF s1 = << >> THEN TRUE
    ELSE IF Head(s1) # Head(s2) THEN ord(Head(s1)) < ord(Head(s2))
    ELSE StrLess(Tail(s1), Tail(s2))

RECURSIVE InsertSorted(_, _)
InsertSorted(sorted, s) ==
    IF sorted = << >> THEN <<s>>
    ELSE IF StrLess(s, Head(sorted)) THEN <<s>> \o sorted
    ELSE <<Head(sorted)>> \o InsertSorted(Tail(sorted), s)

RECURSIVE list_sort(_)
\* items.sort() of a list of str
list_sort(items) ==
    IF items = << >> THEN << >>
    ELSE InsertSorted(list_sort(SubSeq(items, 1, Len(items) - 1)), items[Len(items)])

RECURSIVE str_join(_, _)
\* sep.join(items)
str_join(sep, items) ==
    IF items = << >> THEN << >>
    ELSE IF Len(items) = 1 THEN items[1]
    ELSE items[1] \o sep \o str_join(sep, Tail(items))

\* TRANSLATIONS[namespace][token], KeyError at either level
Lookup(T, namespace, token) ==
    IF DictHas(T, namespace) /\ DictHas(DictGet(T, namespace), token)
    THEN Ok(DictGet(DictGet(T, namespace), token))
    ELSE Raise("KeyError")

\* the tail of both __str__: format the result when there are parameters
Formatted(result, parameters) ==
    IF parameters # << >> THEN format_map(result, parameters) ELSE Ok(result)

\* TransToken.__str__ that never asks the translator for a UI token
TransToken_str_NoGettext(self, tr, T) ==
    IF self.namespace = NS_UNTRANSLATED \/ self.token = << >>
    THEN Formatted(self.token, self.parameters)
    ELSE IF tr.kind = "DummyTranslations" THEN Ok(Hashes(self.token))
    ELSE IF self.namespace = NS_UI
    THEN Formatted(self.token, self.parameters)
    ELSE IF Lookup(T, self.namespace, self.token).ok
    THEN Formatted(Lookup(T, self.namespace, self.token).val, self.parameters)
    ELSE Formatted(self.token, self.parameters)

\* TransToken.__str__ that tests for the Dummy translator first
TransToken_str_DummyFirst(self, tr, T) ==
    IF tr.kind = "DummyTranslations" THEN Ok(Hashes(self.token))
    ELSE IF self.namespace = NS_UNTRANSLATED \/ self.token = << >>
    THEN Formatted(self.token, self.parameters)
    ELSE IF self.namespace = NS_UI
    THEN Formatted(gettext(tr, self.token), self.parameters)
    ELSE IF Lookup(T, self.namespace, self.token).ok
    THEN Formatted(Lookup(T, self.namespace, self.token).val, self.parameters)
    ELSE Formatted(self.token, self.parameters)

\* TransToken.__str__ without the except KeyError
TransToken_str_Uncaught(self, tr, T) ==
    IF self.namespace = NS_UNTRANSLATED \/ self.token = << >>
    THEN Formatted(self.token, self.parameters)
    ELSE IF tr.kind = "DummyTranslations" THEN Ok(Hashes(self.token))
    ELSE IF self.namespace = NS_UI
    THEN Formatted(gettext(tr, self.token), self.parameters)
    ELSE IF Lookup(T, self.namespace, self.token).ok
    THEN Formatted(Lookup(T, self.namespace, self.token).val, self.parameters)
    ELSE Lookup(T, self.namespace, self.token)

\* TransToken.__str__ that hands a UI key to the Dummy translator's gettext
TransToken_str_ViaGettext(self, tr, T) ==
    IF self.namespace = NS_UNTRANSLATED \/ self.token = << >>
    THEN Formatted(self.token, self.parameters)
    ELSE IF self.namespace = NS_UI \/ tr.kind = "DummyTranslations"
    THEN Formatted(gettext(tr, self.token), self.parameters)
    ELSE IF Lookup(T, self.namespace, self.token).ok
    THEN Formatted(Lookup(T, self.namespace, self.token).val, self.parameters)
    ELSE Formatted(self.token, self.parameters)

\* TransToken.__str__ under translator tr and tables T
TransToken_str(self, tr, T) ==
    IF self.namespace = NS_UNTRANSLATED \/ self.token = << >>
    THEN Formatted(self.token, self.parameters)
    ELSE IF tr.kind = "DummyTranslations" THEN Ok(Hashes(self.token))
    ELSE IF self.namespace = NS_UI
    THEN Formatted(gettext(tr, self.token), self.parameters)
    ELSE IF Lookup(T, self.namespace, self.token).ok
    THEN Formatted(Lookup(T, self.namespace, self.token).val, self.parameters)
    ELSE Formatted(self.token, self.parameters)

\* PluralTransToken.__str__ reading n only where a text is chosen by it
PluralTransToken_str_LateN(self, tr, T) ==
    IF self.namespace # NS_UNTRANSLATED /\ self.token # << >>
       /\ tr.kind = "DummyTranslations"
    THEN Ok(Hashes(self.token))
    ELSE IF self.namespace \notin {NS_UNTRANSLATED, NS_UI} /\ self.token # << >>
    THEN Raise("ValueError: Namespace is not allowed")
    ELSE IF ~DictHas(self.parameters, S_n) THEN Raise("ValueError: Plural token requires n")
    ELSE IF ~int(DictGet(self.parameters, S_n)).ok THEN Raise("ValueError")
    ELSE LET n == int(DictGet(self.parameters, S_n)).val
         IN  IF self.namespace = NS_UNTRANSLATED \/ self.token = << >>
             THEN Formatted(IF n = 1 THEN self.token ELSE self.token_plural, self.parameters)
             ELSE Formatted(ngettext(tr, self.token, self.token_plural, n), self.parameters)

\* PluralTransToken.__str__ under translator tr
PluralTransToken_str(self, tr, T) ==
    IF ~DictHas(self.parameters, S_n) THEN Raise("ValueError: Plural token requires n")
    ELSE IF ~int(DictGet(self.parameters, S_n)).ok THEN Raise("ValueError")
    ELSE LET n == int(DictGet(self.parameters, S_n)).val
         IN  IF self.namespace = NS_UNTRANSLATED \/ self.token = << >>
             THEN Formatted(IF n = 1 THEN self.token ELSE self.token_plural, self.parameters)
             ELSE IF tr.kind = "DummyTranslations" THEN Ok(Hashes(self.token))
             ELSE IF self.namespace = NS_UI
             THEN Formatted(ngettext(tr, self.token, self.token_plural, n), self.parameters)
             ELSE Raise("ValueError: Namespace is not allowed")

\* the index of the first item that raised, 0 when none did
FirstRaise(results) ==
    IF \E i \in 1..Len(results) : ~results[i].ok
    THEN CHOOSE i \in 1..Len(results) :
            ~results[i].ok /\ \A j \in 1..(i - 1) : results[j].ok
    ELSE 0

RECURSIVE str(_, _, _)
\* str(token): dispatch on the class of the token; JoinTransToken.__str__ inline
str(self, tr, T) ==
    CASE self.type = "TransToken" -> TransToken_str(self, tr, T)
      [] self.type = "PluralTransToken" -> PluralTransToken_str(self, tr, T)
      [] self.type = "JoinTransToken" ->
            LET sep == TransToken_str(self, tr, T)
                results == [i \in 1..Len(self.children) |-> str(self.children[i], tr, T)]
                items == [i \in 1..Len(results) |-> results[i].val]
            IN  IF ~sep.ok THEN sep
                ELSE IF FirstRaise(results) # 0 THEN results[FirstRaise(results)]
                ELSE Ok(str_join(sep.val, IF self.sort THEN list_sort(items) ELSE items))

RECURSIVE eq(_, _)
\* a == b of two tokens: __eq__ of the class of a, NotImplemented (then False,
\* the reflected call and the identity fallback) when b is of another class
eq(self, other) ==
    CASE self.type # other.type -> FALSE
      [] self.type = "TransToken" ->
            /\ self.namespace = other.namespace
            /\ self.token = other.token
            /\ DictEq(self.parameters, other.parameters)
      [] self.type = "PluralTransToken" ->
            /\ self.namespace = other.namespace
            /\ self.token = other.token
            /\ self.token_plural = other.token_plural
            /\ DictEq(self.parameters, other.parameters)
      [] self.type = "JoinTransToken" ->
            /\ self.namespace = other.namespace
            /\ self.token = other.token
            /\ Len(self.children) = Len(other.children)
            /\ \A i \in 1..Len(self.children) : eq(self.children[i], other.children[i])

RECURSIVE hash_OrderedItems(_)
\* __hash__ over tuple(self.parameters.items()) in place of the frozenset
hash_OrderedItems(self) ==
    CASE self.type = "TransToken" ->
            <<self.namespace, self.token, self.parameters>>
      [] self.type = "PluralTransToken" ->
            <<self.namespace, self.token, self.token_plural, self.parameters>>
      [] self.type = "JoinTransToken" ->
            <<self.namespace, self.token>>
                \o [i \in 1..Len(self.children) |-> hash_OrderedItems(self.children[i])]

RECURSIVE hash(_)
\* hash(token): the tuple the class hashes; a tuple's hash is a function of
\* the hashes of its elements
hash(self) ==
    CASE self.type = "TransToken" ->
            <<self.namespace, self.token, DictItems(self.parameters)>>
      [] self.type = "PluralTransToken" ->
            <<self.namespace, self.token, self.token_plural, DictItems(self.parameters)>>
      [] self.type = "JoinTransToken" ->
            <<self.namespace, self.token>>
                \o [i \in 1..Len(self.children) |-> hash(self.children[i])]

\* ------------------------------------------------------- load_basemodui
RECURSIVE split(_, _, _)
\* line.split(sep) of a one-character separator, part being the part in progress
split(line, sep, part) ==
    IF line = << >> THEN <<part>>
    ELSE IF Head(line) = sep THEN <<part>> \o split(Tail(line), sep, << >>)
    ELSE split(Tail(line), sep, Append(part, Head(line)))

RECURSIVE unescape(_)
\* value.replace("\\'", "'")
unescape(value) ==
    IF Len(value) < 2 THEN value
    ELSE IF value[1] = "\\" /\ value[2] = "'" THEN <<"'">> \o unescape(SubSeq(value, 3, Len(value)))
    ELSE <<value[1]>> \o unescape(Tail(value))

\* the lines of the basemodui.txt files a location may hold; << >> for no file
BasemodFile(basemod_loc) ==
    CASE basemod_loc = "basemodui.txt" ->
      <<<<"\"", "l", "a", "n", "g", "\"", "\n">>,
       <<"{", "\n">>,
       <<"\t", "\"", "P", "O", "R", "T", "A", "L", "2", "_", "P", "u", "z", "z", "l", "e", "E", "d", "i", "t", "o", "r", "_", "k", "\"", "\t", "\"", "Y", "o", "\"", "\n">>,
       <<"\t", "\"", "O", "t", "h", "e", "r", "_", "k", "\"", "\t", "\"", "A", "b", "\"", "\n">>,
       <<"\t", "\"", "P", "O", "R", "T", "A", "L", "2", "_", "P", "u", "z", "z", "l", "e", "E", "d", "i", "t", "o", "r", "_", "m", "\"", "\t", "\"", "Z", "\\", "'", "z", "\"", "\n">>,
       <<"\t", "\"", "P", "O", "R", "T", "A", "L", "2", "_", "P", "u", "z", "z", "l", "e", "E", "d", "i", "t", "o", "r", "_", "k", "\"", "\t", "\"", "Z", "z", "\"", " ", "\"", "\n">>,
       <<"\t", "\"", "P", "O", "R", "T", "A", "L", "2", "_", "P", "u", "z", "z", "l", "e", "E", "d", "i", "t", "o", "r", "_", "k", "\"", "\t", "\"", "A", "b", "\"", "\n">>>>
      [] basemod_loc = "other.txt" ->
      <<<<"\t", "\"", "O", "t", "h", "e", "r", "_", "k", "\"", "\t", "\"", "A", "b", "\"", "\n">>>>
      [] OTHER -> << >>

\* the locations load_basemodui is called with; no file is at "missing.txt"
BasemodLocs == {"basemodui.txt", "other.txt", "missing.txt"}

\* open(basemod_loc) finds a file
isfile(basemod_loc) == basemod_loc \in {"basemodui.txt", "other.txt"}

RECURSIVE read_lines_FirstWins(_, _)
\* the loop over the lines, keeping the first value of a key
read_lines_FirstWins(lines, trans_data) ==
    IF lines = << >> THEN trans_data
    ELSE LET parts == split(Head(lines), "\"", << >>)
         IN  IF Len(parts) = 5 /\ startswith(parts[2], PETI_KEY_PREFIX)
                /\ ~DictHas(trans_data, parts[2])
             THEN read_lines_FirstWins(Tail(lines), DictSet(trans_data, parts[2], unescape(parts[4])))
             ELSE read_lines_FirstWins(Tail(lines), trans_data)

RECURSIVE read_lines(_, _)
\* the loop over the lines of the file, filling trans_data
read_lines(lines, trans_data) ==
    IF lines = << >> THEN trans_data
    ELSE LET parts == split(Head(lines), "\"", << >>)
         IN  IF Len(parts) # 5 THEN read_lines(Tail(lines), trans_data)
             ELSE IF startswith(parts[2], PETI_KEY_PREFIX)
             THEN read_lines(Tail(lines), DictSet(trans_data, parts[2], unescape(parts[4])))
             ELSE read_lines(Tail(lines), trans_data)

\* load_basemodui without the test for a table already loaded
load_basemodui_Reload(s, basemod_loc) ==
    IF ~isfile(basemod_loc) THEN s
    ELSE [s EXCEPT !.T = DictSet(s.T, NS_GAME, read_lines(BasemodFile(basemod_loc), << >>))]

\* load_basemodui on the program state s
load_basemodui(s, basemod_loc) ==
    IF DictHas(s.T, NS_GAME) THEN s
    ELSE IF ~isfile(basemod_loc) THEN s
    ELSE [s EXCEPT !.T = DictSet(s.T, NS_GAME, read_lines(BasemodFile(basemod_loc), << >>))]

\* ------------------------------------------------- the binding registry
\* The handlers below are functions of the program state s, a record of
\*   tr      _TRANSLATOR                 T       TRANSLATIONS
\*   applied _applied_tokens             menus   _applied_menu_tokens
\*   cbs     _langchange_callback
\*   text    widget['text'] of each widget
\*   labels  the label of each entry of each menu
\*   titles  the title of each window
\*   fonts   the family of the named Tk fonts
\*   trace   what the running call did, in order: <<"applied", widget>> and
\*           <<"applied_menu", menu, index>> for a token applied to a sink,
\*           <<"text", widget>> and <<"label", menu, index>> for a sink reloaded by
\*           set_language, <<"call", func>> for a callable invoked by the loop of
\*           set_language, <<"call_now", func>> for one invoked by add_callback,
\*           <<"warning">>, and <<"return">> for the return of set_language when
\*           tkinter cannot be imported
\*   raised  the exception the running call ended with, "none" if it returned

Widgets == {"w1", "w2"}
Menus == {"m1", "m2"}
\* menu.index(index) of the entries of a menu
MenuIndexes == {0, 1}
Wins == {"win1"}

\* the callables handed to add_callback: the lambda of apply_title, functions
\* applying a token, clearing a menu or registering a further callback, and one
\* that touches no widget and nothing of this module
TitleCallback(win, token) ==
    [kind |-> "title", token |-> token, target |-> win, call |-> FALSE]
ApplyCallback(widget, token) ==
    [kind |-> "apply", token |-> token, target |-> widget, call |-> FALSE]
ClearMenuCallback(menu) ==
    [kind |-> "clear_menu", token |-> untranslated(<< >>), target |-> menu, call |-> FALSE]
RegisterCallback(win, token, call) ==
    [kind |-> "register", token |-> token, target |-> win, call |-> call]
PlainCallback ==
    [kind |-> "plain", token |-> untranslated(<< >>), target |-> "", call |-> FALSE]

\* TransToken.apply that keeps the token a widget already has
apply_KeepFirst(s, self, widget) ==
    LET r == str(self, s.tr, s.T)
    IN  IF ~r.ok THEN [s EXCEPT !.raised = r.err]
        ELSE [s EXCEPT !.text[widget] = r.val,
                       !.applied = IF DictHas(s.applied, widget) THEN s.applied
                                   ELSE DictSet(s.applied, widget, self),
                       !.trace = Append(s.trace, <<"applied", widget>>)]

\* TransToken.apply
apply(s, self, widget) ==
    LET r == str(self, s.tr, s.T)
    IN  IF ~r.ok THEN [s EXCEPT !.raised = r.err]
        ELSE [s EXCEPT !.text[widget] = r.val,
                       !.applied = DictSet(s.applied, widget, self),
                       !.trace = Append(s.trace, <<"applied", widget>>)]

\* TransToken.apply_menu
apply_menu(s, self, menu, ind) ==
    LET tok_map == IF DictHas(s.menus, menu) THEN DictGet(s.menus, menu) ELSE << >>
        r == str(self, s.tr, s.T)
    IN  IF ~r.ok
        THEN [s EXCEPT !.menus = DictSet(s.menus, menu, tok_map), !.raised = r.err]
        ELSE [s EXCEPT !.labels[menu][ind] = r.val,
                       !.menus = DictSet(s.menus, menu, DictSet(tok_map, ind, self)),
                       !.trace = Append(s.trace, <<"applied_menu", menu, ind>>)]

\* clear_stored_menu that empties the whole registry of menus
clear_stored_menu_All(s, menu) == [s EXCEPT !.menus = << >>]

\* TransToken.clear_stored_menu
clear_stored_menu(s, menu) == [s EXCEPT !.menus = DictPop(s.menus, menu)]

\* a plain dict in place of the WeakKeyDictionary: the entry outlives its key
discard_StrongDict(s, sink) == s

\* WeakKeyDictionary: the entry of a key goes when the key is collected
discard(s, sink) ==
    [s EXCEPT !.applied = DictPop(s.applied, sink), !.menus = DictPop(s.menus, sink)]

\* win.title(str(self)), the lambda of apply_title
set_title(s, self, win) ==
    LET r == str(self, s.tr, s.T)
    IN  IF ~r.ok THEN [s EXCEPT !.raised = r.err]
        ELSE [s EXCEPT !.titles[win] = r.val]

\* func() of a registered callable; add_callback inline for the one that registers
call_func(s, func) ==
    CASE func.kind = "title" -> set_title(s, func.token, func.target)
      [] func.kind = "apply" -> apply(s, func.token, func.target)
      [] func.kind = "clear_menu" -> clear_stored_menu(s, func.target)
      [] func.kind = "plain" -> s
      [] func.kind = "register" ->
            LET title == TitleCallback(func.target, func.token)
                s1 == [s EXCEPT !.cbs = Append(s.cbs, title)]
            IN  IF func.call
                THEN set_title([s1 EXCEPT !.trace = Append(s1.trace, <<"call_now", title>>)],
                               func.token, func.target)
                ELSE s1

\* TransToken.add_callback
add_callback(s, func, call) ==
    LET s1 == [s EXCEPT !.cbs = Append(s.cbs, func)]
    IN  IF call
        THEN call_func([s1 EXCEPT !.trace = Append(s1.trace, <<"call_now", func>>)], func)
        ELSE s1

\* TransToken.apply_title
apply_title(s, self, win) == add_callback(s, TitleCallback(win, self), TRUE)

\* ---------------------------------------------------------- set_language
\* the loop of set_language without its break: the last candidate with a file
LastInstalled(expanded_langs, installed) ==
    IF \E i \in 1..Len(expanded_langs) : expanded_langs[i] \in installed
    THEN expanded_langs[CHOOSE i \in 1..Len(expanded_langs) :
            /\ expanded_langs[i] \in installed
            /\ \A j \in (i + 1)..Len(expanded_langs) : expanded_langs[j] \notin installed]
    ELSE ""

\* the first candidate with a catalog file, "" when the loop finds none
FirstInstalled(expanded_langs, installed) ==
    IF \E i \in 1..Len(expanded_langs) : expanded_langs[i] \in installed
    THEN expanded_langs[CHOOSE i \in 1..Len(expanded_langs) :
            /\ expanded_langs[i] \in installed
            /\ \A j \in 1..(i - 1) : expanded_langs[j] \notin installed]
    ELSE ""

\* the translator the for/else of set_language installs
NewTranslator(lang_code, installed) ==
    IF FirstInstalled(expand_lang(lang_code), installed) # ""
    THEN GNUTranslations(FirstInstalled(expand_lang(lang_code), installed))
    ELSE IF lang_code = "dummy" THEN DummyTranslations
    ELSE NullTranslations

\* the warning logged without the test for 'en' among the candidates
Warns_NoEnglishTest(lang_code, installed) ==
    /\ FirstInstalled(expand_lang(lang_code), installed) = ""
    /\ lang_code # "dummy"

\* does the for/else of set_language log the warning
Warns(lang_code, installed) ==
    /\ FirstInstalled(expand_lang(lang_code), installed) = ""
    /\ lang_code # "dummy"
    /\ \A i \in 1..Len(expand_lang(lang_code)) : expand_lang(lang_code)[i] # "en"

RECURSIVE reload_widgets(_, _)
\* for text_widget, token in _applied_tokens.items(), from item i on
reload_widgets(s, i) ==
    IF i > Len(s.applied) THEN s
    ELSE LET r == str(s.applied[i][2], s.tr, s.T)
         IN  IF ~r.ok THEN [s EXCEPT !.raised = r.err]
             ELSE reload_widgets(
                    [s EXCEPT !.text[s.applied[i][1]] = r.val,
                              !.trace = Append(s.trace, <<"text", s.applied[i][1]>>)],
                    i + 1)

RECURSIVE reload_menus(_, _, _)
\* for menu, menu_map in _applied_menu_tokens.items(): for index, token in
\* menu_map.items(), from item j of menu i on
reload_menus(s, i, j) ==
    IF i > Len(s.menus) THEN s
    ELSE IF j > Len(s.menus[i][2]) THEN reload_menus(s, i + 1, 1)
    ELSE LET menu == s.menus[i][1]
             index == s.menus[i][2][j][1]
             r == str(s.menus[i][2][j][2], s.tr, s.T)
         IN  IF ~r.ok THEN [s EXCEPT !.raised = r.err]
             ELSE reload_menus(
                    [s EXCEPT !.labels[menu][index] = r.val,
                              !.trace = Append(s.trace, <<"label", menu, index>>)],
                    i, j + 1)

RECURSIVE reload_callbacks(_, _)
\* for func in _langchange_callback, from item i of the list as it is now
reload_callbacks(s, i) ==
    IF i > Len(s.cbs) THEN s
    ELSE LET s1 == call_func([s EXCEPT !.trace = Append(s.trace, <<"call", s.cbs[i]>>)],
                             s.cbs[i])
         IN  IF s1.raised # "none" THEN s1 ELSE reload_callbacks(s1, i + 1)

\* the three loops that end set_language
reload(s) ==
    LET s1 == reload_widgets(s, 1)
        s2 == IF s1.raised # "none" THEN s1 ELSE reload_menus(s1, 1, 1)
    IN  IF s2.raised # "none" THEN s2 ELSE reload_callbacks(s2, 1)

\* set_language putting the old translator back when a reload loop raises
set_language_Rollback(s, lang_code, installed, tkinter) ==
    LET s1 == [s EXCEPT
                !.tr = NewTranslator(lang_code, installed),
                !.trace = IF Warns(lang_code, installed) THEN <<<<"warning">>>> ELSE << >>]
        s2 == IF gettext(s1.tr, S_SANS) = S_YES
              THEN IF ~tkinter THEN [s1 EXCEPT !.trace = Append(s1.trace, <<"return">>)]
                   ELSE reload([s1 EXCEPT !.fonts = "sans-serif"])
              ELSE reload(s1)
    IN  IF s2.raised # "none" THEN [s2 EXCEPT !.tr = s.tr] ELSE s2

\* set_language on the program state s, with the catalog files installed and
\* tkinter importable or not
set_language(s, lang_code, installed, tkinter) ==
    LET s1 == [s EXCEPT
                !.tr = NewTranslator(lang_code, installed),
                !.trace = IF Warns(lang_code, installed) THEN <<<<"warning">>>> ELSE << >>]
    IN  IF gettext(s1.tr, S_SANS) = S_YES
        THEN IF ~tkinter THEN [s1 EXCEPT !.trace = Append(s1.trace, <<"return">>)]
             ELSE reload([s1 EXCEPT !.fonts = "sans-serif"])
        ELSE reload(s1)

\* ---------------------------------------------------------------- state
VARIABLES
    _TRANSLATOR,            \* the active translator
    TRANSLATIONS,           \* namespace -> token -> string
    _applied_tokens,        \* widget -> token
    _applied_menu_tokens,   \* menu -> index -> token
    _langchange_callback,   \* the registered callables
    text,                   \* widget['text']
    labels,                 \* the entry labels of each menu
    titles,                 \* the title of each window
    fonts,                  \* the family of the named Tk fonts
    installed,              \* the languages with a .mo file in the i18n folder
    tkinter,                \* whether tkinter can be imported in this process
    called,                 \* the last call: [op, args], with the number of callables
                            \* registered, the sinks bound and the tables loaded
                            \* when it was made, whether load_basemodui had been
                            \* called before it, and the sinks collected so far
    trace,                  \* what the last call did, in order
    raised,                 \* the exception the last call ended with, or "none"
    result,                 \* the value the last call returned
    tokA, tokB,             \* the tokens the caller holds
    steps                   \* number of calls made

vars == <<_TRANSLATOR, TRANSLATIONS, _applied_tokens, _applied_menu_tokens,
          _langchange_callback, text, labels, titles, fonts, installed, tkinter,
          called, trace, raised, result, tokA, tokB, steps>>

\* the program state a call starts from
State ==
    [text |-> text, T |-> TRANSLATIONS, tr |-> _TRANSLATOR, raised |-> "none",
     applied |-> _applied_tokens, trace |-> << >>, menus |-> _applied_menu_tokens,
     labels |-> labels, titles |-> titles, cbs |-> _langchange_callback,
     fonts |-> fonts]

\* the program state a call leaves
Becomes(s) ==
    /\ _TRANSLATOR' = s.tr
    /\ TRANSLATIONS' = s.T
    /\ _applied_tokens' = s.applied
    /\ _applied_menu_tokens' = s.menus
    /\ _langchange_callback' = s.cbs
    /\ text' = s.text
    /\ labels' = s.labels
    /\ titles' = s.titles
    /\ fonts' = s.fonts
    /\ trace' = s.trace
    /\ raised' = s.raised

\* the tokens bound to widgets, menu entries and window titles
BindTokens ==
    {ui(S_Hi, << >>), ui(S_HiA, << <<S_a, S_x>> >>), from_valve(S_PETI_k)}
MenuTokens == {ui(S_Hi, << >>), ui(S_HiA, << <<S_a, S_x>> >>), from_valve(S_PETI_k)}
TitleTokens == {ui(S_Hi, << >>), ui(S_HiA, << <<S_a, S_x>> >>)}

\* the callables registered directly
Callbacks ==
    {ApplyCallback("w1", ui(S_Ab, << >>)), ClearMenuCallback("m1"),
     RegisterCallback("win1", ui(S_Ab, << >>), TRUE),
     RegisterCallback("win1", ui(S_Ab, << >>), FALSE), PlainCallback}

\* what a handler of the program returns
None == [value |-> "None", op |-> "none", args |-> << >>]

\* module level: NullTranslations, empty tables and registries
InitProgram ==
    /\ _TRANSLATOR = NullTranslations
    /\ TRANSLATIONS = << >>
    /\ _applied_tokens = << >>
    /\ _applied_menu_tokens = << >>
    /\ _langchange_callback = << >>
    /\ text = [w \in Widgets |-> << >>]
    /\ labels = [m \in Menus |-> [i \in MenuIndexes |-> << >>]]
    /\ titles = [w \in Wins |-> << >>]
    /\ fonts = "default"
    /\ installed \in Installs
    /\ tkinter \in BOOLEAN
    /\ called = [text |-> [w \in Widgets |-> << >>],
                 applied |-> << >>, menus |-> << >>,
                 labels |-> [m \in Menus |-> [i \in MenuIndexes |-> << >>]],
                 cbs |-> 0, op |-> "import", args |-> << >>,
                 tables |-> << >>, callbacks |-> << >>, gone |-> {},
                 attempted |-> FALSE, clean |-> TRUE]
    /\ trace = << >>
    /\ raised = "none"
    /\ result = None
    /\ steps = 0

Init ==
    /\ InitProgram
    /\ tokA = ui(S_Hi, << >>)
    /\ tokB = ui(S_Hi, << >>)

Env == UNCHANGED <<installed, tkinter, tokA, tokB>>

\* a call of a handler on the program: the program state it leaves
Call(s, op, args) ==
    /\ Becomes(s)
    /\ called' = [text |-> text,
                   applied |-> _applied_tokens, menus |-> _applied_menu_tokens,
                   labels |-> labels,
                   cbs |-> Len(_langchange_callback), op |-> op, args |-> args,
                   tables |-> TRANSLATIONS,
                   callbacks |-> _langchange_callback,
                   gone |-> called.gone \cup (IF op = "discard" THEN {args[1]} ELSE {}),
                   attempted |-> called.attempted \/ called.op = "load_basemodui",
                   clean |-> /\ called.clean
                             /\ raised = "none"
                             /\ called.op \in {"import", "apply", "apply_menu",
                                               "set_language", "load_basemodui"}]
    /\ result' = None
    /\ steps' = steps + 1
    /\ Env

\* Widgets, menus and windows are tkinter objects (lines 18-20, 36-44): a process
\* that cannot import tkinter, the compiler, has none to bind, and registers
\* only callables that use none.

SetLanguage(lang_code) ==
    /\ steps < MaxSteps
    /\ Call(set_language(State, lang_code, installed, tkinter), "set_language", <<lang_code>>)

LoadBasemodui(basemod_loc) ==
    /\ steps < MaxSteps
    /\ Call(load_basemodui(State, basemod_loc), "load_basemodui", <<basemod_loc>>)

Apply(self, widget) ==
    /\ steps < MaxSteps
    /\ tkinter
    /\ widget \notin called.gone
    /\ Call(apply(State, self, widget), "apply", <<self, widget>>)

ApplyMenu(self, menu, index) ==
    /\ steps < MaxSteps
    /\ tkinter
    /\ menu \notin called.gone
    /\ Call(apply_menu(State, self, menu, index), "apply_menu", <<self, menu, index>>)

ClearStoredMenu(menu) ==
    /\ steps < MaxSteps
    /\ tkinter
    /\ menu \notin called.gone
    /\ Call(clear_stored_menu(State, menu), "clear_stored_menu", <<menu>>)

ApplyTitle(self, win) ==
    /\ steps < MaxSteps
    /\ tkinter
    /\ Call(apply_title(State, self, win), "apply_title", <<self, win>>)

AddCallback(func, call) ==
    /\ steps < MaxSteps
    /\ tkinter \/ func = PlainCallback
    /\ func.target \notin called.gone
    /\ Call(add_callback(State, func, call), "add_callback", <<func, call>>)

\* The owner of a bound widget or menu drops it and it is collected: no strong
\* reference is left, so no callable on the callback list uses it.
Discard(sink) ==
    /\ steps < MaxSteps
    /\ tkinter
    /\ DictHas(_applied_tokens, sink) \/ DictHas(_applied_menu_tokens, sink)
    /\ \A i \in 1..Len(_langchange_callback) : _langchange_callback[i].target # sink
    /\ Call(discard(State, sink), "discard", <<sink>>)

Next ==
    \/ \E lang_code \in LangCodes : SetLanguage(lang_code)
    \/ \E basemod_loc \in BasemodLocs : LoadBasemodui(basemod_loc)
    \/ \E self \in BindTokens, widget \in Widgets : Apply(self, widget)
    \/ \E self \in MenuTokens, menu \in Menus, index \in MenuIndexes :
        ApplyMenu(self, menu, index)
    \/ \E menu \in Menus : ClearStoredMenu(menu)
    \/ \E self \in TitleTokens, win \in Wins : ApplyTitle(self, win)
    \/ \E func \in Callbacks, call \in BOOLEAN : AddCallback(func, call)
    \/ \E sink \in Widgets \cup Menus : Discard(sink)

Spec == Init /\ [][Next]_vars

\* ------------------------------------------------- the token operations
\* The caller holds tokens tokA and tokB, built once, and calls str(), ==,
\* hash(), format() and join() on them between language changes.

\* every list of at most n items of S
RECURSIVE ListsUpTo(_, _)
ListsUpTo(S, n) ==
    IF n = 0 THEN {<< >>}
    ELSE ListsUpTo(S, n - 1)
            \cup {Append(l, x) : l \in {m \in ListsUpTo(S, n - 1) : Len(m) = n - 1}, x \in S}

\* the parameters tokens are built and formatted with
P_ax == << <<S_a, S_x>> >>
P_ay == << <<S_a, S_y>> >>
P_by == << <<S_b, S_y>> >>
P_axby == << <<S_a, S_x>>, <<S_b, S_y>> >>
P_byax == << <<S_b, S_y>>, <<S_a, S_x>> >>
P_n1 == << <<S_n, S_1>> >>
P_n2 == << <<S_n, S_2>> >>
P_nx == << <<S_n, S_x>> >>

\* the tokens str() is called on
StrPlain ==
    {TransToken(ns, key, p) :
        ns \in {NS_UI, NS_GAME, NS_UNTRANSLATED, NS_pkg},
        key \in {S_empty, S_space, S_Hi, S_HiA, S_PETI_k},
        p \in {<< >>, P_ax, P_by}}
StrPlural ==
    {PluralTransToken(ns, key, p, S_Zz) :
        ns \in {NS_UI, NS_GAME, NS_UNTRANSLATED, NS_pkg},
        key \in {S_empty, S_Hi},
        p \in {<< >>, P_n1, P_n2, P_nx}}
StrJoin ==
    {JoinTransToken(sep.namespace, sep.token, sep.parameters, children, sort) :
        sep \in {ui(<<",">>, << >>), untranslated(S_empty)},
        children \in ListsUpTo({ui(S_Zz, << >>), ui_plural(S_Hi, S_Zz, << >>)},
                               MaxChildren),
        sort \in BOOLEAN}
\* Join tokens of two children whose order under fr is not that of their keys,
\* and Join tokens whose separator has a placeholder
StrJoinPairs ==
    {JoinTransToken(sep.namespace, sep.token, sep.parameters, children, sort) :
        sep \in {ui(<<",">>, << >>), ui(S_HiA, P_ax), ui(S_HiA, P_by)},
        children \in {<< >>, <<ui(S_Ab, << >>), ui(S_Zz, << >>)>>,
                      <<ui(S_Zz, << >>), ui(S_Ab, << >>)>>},
        sort \in BOOLEAN}
StrTokens == StrPlain \cup StrPlural \cup StrJoin \cup StrJoinPairs

\* the tokens compared, hashed, formatted and joined
EqPlain ==
    {ui(S_Hi, << >>), ui(S_Hi, P_ax), ui(S_Hi, P_axby), ui(S_Hi, P_byax),
     ui(S_Ab, << >>), untranslated(S_Hi)}
EqPlural ==
    {ui_plural(S_Hi, S_Zz, << >>), ui_plural(S_Hi, S_Ab, << >>),
     ui_plural(S_Hi, S_Zz, P_n1)}
EqJoin ==
    {JoinTransToken(sep.namespace, sep.token, sep.parameters, children, sort) :
        sep \in {ui(S_Hi, << >>), ui(S_Hi, P_ax)},
        children \in ListsUpTo({ui(S_Hi, << >>), ui(S_Hi, P_ax)}, MaxChildren),
        sort \in BOOLEAN}
EqTokens == EqPlain \cup EqPlural \cup EqJoin

\* a token operation: the value it returns; the program is left alone
Returns(op, args, value) ==
    /\ result' = [value |-> value, op |-> op, args |-> args]
    /\ UNCHANGED <<_TRANSLATOR, TRANSLATIONS, _applied_tokens, _applied_menu_tokens,
                   _langchange_callback, text, labels, titles, fonts, installed,
                   tkinter, called, trace, raised, tokA, tokB, steps>>

\* str(tokA)
Str ==
    /\ tokA \in StrTokens
    /\ Returns("str", <<tokA>>, str(tokA, _TRANSLATOR, TRANSLATIONS))

\* bool(tokA)
Bool ==
    /\ tokA \in StrTokens
    /\ Returns("bool", <<tokA>>, TransToken_bool(tokA))

\* tokA == tokB
Eq ==
    /\ tokA \in EqTokens
    /\ Returns("eq", <<tokA, tokB>>, eq(tokA, tokB))

\* hash(tokA), hash(tokB)
Hash ==
    /\ tokA \in EqTokens
    /\ Returns("hash", <<tokA, tokB>>, <<hash(tokA), hash(tokB)>>)

\* tokA.format(**kwargs)
Format(kwargs) ==
    /\ tokA \in EqTokens
    /\ Returns("format", <<tokA, kwargs>>, format(tokA, kwargs))

\* tokA.join(children, sort)
Join(children, sort) ==
    /\ tokA \in EqTokens
    /\ Returns("join", <<tokA, children, sort>>, join(tokA, children, sort))

InitStr ==
    /\ InitProgram
    /\ tokA \in StrTokens
    /\ tokB = tokA

NextStr ==
    \/ \E lang_code \in LangCodes : steps < MaxStrSteps /\ SetLanguage(lang_code)
    \/ \E basemod_loc \in {"basemodui.txt", "missing.txt"} :
        steps < MaxStrSteps /\ LoadBasemodui(basemod_loc)
    \/ Str
    \/ Bool

SpecStr == InitStr /\ [][NextStr]_vars

InitEq ==
    /\ InitProgram
    /\ installed = {"fr", "ja", "de"}
    /\ tkinter
    /\ tokA \in EqTokens
    /\ tokB \in EqTokens

NextEq ==
    \/ SetLanguage("fr_FR")
    \/ LoadBasemodui("basemodui.txt")
    \/ Eq
    \/ Hash
    \/ \E kwargs \in {P_ay, P_byax, P_n2} : Format(kwargs)
    \/ \E children \in {<< >>, <<tokB>>}, sort \in BOOLEAN : Join(children, sort)

SpecEq == InitEq /\ [][NextEq]_vars

\* ------------------------------------------- construction of tokens
Namespaces == {NS_UI, NS_GAME, NS_UNTRANSLATED, NS_pkg}

\* PluralTransToken(namespace, token, parameters, token_plural)
Construct(namespace, token, parameters, token_plural) ==
    Returns("PluralTransToken", <<namespace, token, parameters, token_plural>>,
            PluralTransToken_init(namespace, token, parameters, token_plural))

\* TransToken.ui_plural(singular, plural, **kwargs)
UiPlural(singular, plural, kwargs) ==
    Returns("ui_plural", <<singular, plural, kwargs>>, Ok(ui_plural(singular, plural, kwargs)))

\* PluralTransToken.ui(token), .ui_plural(token, token), .untranslated(token),
\* .from_valve(token)
PluralFactory(name, token) ==
    Returns("factory", <<name, token>>, PluralTransToken_factory(name, token))

\* DummyTranslations().gettext(message)
DummyGettext(message) ==
    Returns("gettext", <<message>>, gettext(DummyTranslations, message))

\* DummyTranslations().ngettext(msgid1, msgid2, n)
DummyNgettext(msgid1, msgid2, n) ==
    Returns("ngettext", <<msgid1, msgid2, n>>, ngettext(DummyTranslations, msgid1, msgid2, n))

\* "[[name]]" followed by rest
Bracket(name, rest) == <<"[", "[">> \o name \o <<"]", "]">> \o rest

\* the texts handed to TransToken.parse
ParseTexts ==
    {S_Hi, S_PETI_k, <<"[", "[">> \o NS_pkg \o S_space \o S_Hi,
     Bracket(S_Ab, S_space \o S_Hi), Bracket(S_Ab, S_Hi \o <<"]", "]">> \o S_Zz),
     Bracket(S_empty, S_space \o S_Hi), Bracket(NS_UI, S_space \o S_Hi),
     Bracket(NS_GAME, S_PETI_k), Bracket(S_Ab \o <<">">>, S_Hi),
     Bracket(<<"<">> \o S_Ab, S_Hi)}

\* TransToken.parse(package, string)
Parse(package, string) ==
    Returns("parse", <<package, string>>, Ok(parse(package, string)))

InitCtor ==
    /\ InitProgram
    /\ tokA \in EqPlural \cup {ui(S_Hi, << >>)}
    /\ tokB = ui(S_Ab, << >>)

NextCtor ==
    \/ \E namespace \in Namespaces, token \in {S_empty, S_Hi}, parameters \in {<< >>, P_n1} :
        Construct(namespace, token, parameters, S_Zz)
    \/ \E singular \in {S_empty, S_Hi}, kwargs \in {<< >>, P_n1} : UiPlural(singular, S_Zz, kwargs)
    \/ \E children \in {<< >>, <<tokB>>, <<tokB, tokB>>}, sort \in BOOLEAN : Join(children, sort)
    \/ \E name \in {"ui", "ui_plural", "untranslated", "from_valve"} : PluralFactory(name, S_Hi)
    \/ \E package \in {NS_pkg, S_Zz}, string \in ParseTexts : Parse(package, string)
    \/ \E message \in {S_empty, S_space, S_HiA, S_PETI_k, S_SANS} : DummyGettext(message)
    \/ \E msgid1 \in {S_Hi, S_HiA}, msgid2 \in {S_YoA, S_PETI_m}, n \in 0..2 :
        DummyNgettext(msgid1, msgid2, n)

SpecCtor == InitCtor /\ [][NextCtor]_vars

\* ---------------------------------------------------------------- claims
IsPlain(t) == t.type = "TransToken"

\* C1: a UI token built once and held by the caller resolves, at each str() call,
\* against the translator active at that call: to its own key while the initial
\* passthrough translator is active, and to the catalog's string for the key once
\* set_language has loaded a catalog that has the key.
C1_UiTokenFollowsTranslator ==
    (result.op = "str" /\ IsPlain(tokA) /\ tokA.namespace = NS_UI /\ tokA.parameters = << >>)
    => /\ _TRANSLATOR = NullTranslations => result.value = Ok(tokA.token)
       /\ (/\ _TRANSLATOR.kind = "GNUTranslations"
           /\ DictHas(MoFile(_TRANSLATOR.lang), tokA.token))
          => result.value = Ok(DictGet(MoFile(_TRANSLATOR.lang), tokA.token))

\* str() of the held token ui("Hi") after set_language loaded the fr catalog
C1_Witness ==
    /\ result.op = "str"
    /\ tokA = ui(S_Hi, << >>)
    /\ called.op = "set_language"
    /\ _TRANSLATOR = GNUTranslations("fr")
    /\ result.value = Ok(S_Yo)

\* C5: str() of a plain UNTRANSLATED token is its key, with the named
\* placeholders substituted when it has parameters, whatever translator is active
\* and whatever tables are loaded.
C5_UntranslatedVerbatim ==
    (result.op = "str" /\ IsPlain(tokA) /\ tokA.namespace = NS_UNTRANSLATED)
    => result.value =
        IF tokA.parameters = << >> THEN Ok(tokA.token)
        ELSE format_map(tokA.token, tokA.parameters)

\* str() of untranslated("Hi {a}").format(a="x") while the Dummy translator is active
C5_Witness ==
    /\ result.op = "str"
    /\ tokA = TransToken(NS_UNTRANSLATED, S_HiA, P_ax)
    /\ _TRANSLATOR = DummyTranslations
    /\ result.value = Ok(<<"H", "i", " ", "x">>)

\* the string stored for a key of a namespace, the key itself when the namespace
\* has no table or the table has no such key
StoredOrKey(namespace, token) ==
    IF \E i \in 1..Len(TRANSLATIONS) :
            /\ TRANSLATIONS[i][1] = namespace
            /\ \E j \in 1..Len(TRANSLATIONS[i][2]) : TRANSLATIONS[i][2][j][1] = token
    THEN LET i == CHOOSE i \in 1..Len(TRANSLATIONS) : TRANSLATIONS[i][1] = namespace
             j == CHOOSE j \in 1..Len(TRANSLATIONS[i][2]) : TRANSLATIONS[i][2][j][1] = token
         IN  TRANSLATIONS[i][2][j][2]
    ELSE token

\* C6: with a translator other than Dummy active, str() of a plain token of a
\* namespace other than UI and UNTRANSLATED is the string its namespace table
\* stores for the key, and the key itself when the table lacks the key or the
\* namespace has no table; the failed lookup raises nothing (a token with
\* parameters then has its placeholders substituted in that string).
C6_TableLookupFallsBackToKey ==
    (/\ result.op = "str"
     /\ IsPlain(tokA)
     /\ tokA.namespace \notin {NS_UI, NS_UNTRANSLATED}
     /\ _TRANSLATOR.kind # "DummyTranslations")
    => result.value =
        IF tokA.parameters = << >> THEN Ok(StoredOrKey(tokA.namespace, tokA.token))
        ELSE format_map(StoredOrKey(tokA.namespace, tokA.token), tokA.parameters)

\* str() of a GAME token whose key the loaded basemodui.txt defines
C6_Witness ==
    /\ result.op = "str"
    /\ tokA = from_valve(S_PETI_k)
    /\ DictHas(TRANSLATIONS, NS_GAME)
    /\ _TRANSLATOR.kind = "GNUTranslations"
    /\ result.value = Ok(S_Ab)

\* the text the token resolves to now
Resolves(token) == str(token, _TRANSLATOR, TRANSLATIONS)

TraceHas(e) == \E k \in 1..Len(trace) : trace[k] = e

\* the last call was a set_language that returned after its reload loops
PassRan == called.op = "set_language" /\ raised = "none" /\ ~TraceHas(<<"return">>)

\* every bound widget and menu entry shows what its token resolves to now
SinksCurrent ==
    /\ \A i \in 1..Len(_applied_tokens) :
        Resolves(_applied_tokens[i][2]) = Ok(text[_applied_tokens[i][1]])
    /\ \A i \in 1..Len(_applied_menu_tokens) :
        \A j \in 1..Len(_applied_menu_tokens[i][2]) :
            Resolves(_applied_menu_tokens[i][2][j][2])
                = Ok(labels[_applied_menu_tokens[i][1]][_applied_menu_tokens[i][2][j][1]])

\* C2: when a set_language call returns, every bound widget and menu entry shows
\* the resolution of its token under the translator now installed, and every
\* registered callback was invoked by the call.
C2_EverySetLanguageRefreshes ==
    (called.op = "set_language" /\ raised = "none")
    => /\ SinksCurrent
       /\ \A i \in 1..Len(_langchange_callback) :
            TraceHas(<<"call", _langchange_callback[i]>>)

\* C3: apply renders the token into the widget and records the association; a
\* widget has at most one association, the token applied last; a set_language
\* call that returns leaves every bound widget rendered from that token.
C3_ApplyRecordsOneTokenPerWidget ==
    /\ \A i, j \in 1..Len(_applied_tokens) :
        _applied_tokens[i][1] = _applied_tokens[j][1] => i = j
    /\ (called.op = "apply" /\ raised = "none")
       => /\ Resolves(called.args[1]) = Ok(text[called.args[2]])
          /\ DictHas(_applied_tokens, called.args[2])
          /\ DictGet(_applied_tokens, called.args[2]) = called.args[1]
          /\ result = None
    /\ called.op = "set_language"
       => \A w \in Widgets :
            TraceHas(<<"text", w>>)
            => /\ DictHas(_applied_tokens, w)
               /\ Resolves(DictGet(_applied_tokens, w)) = Ok(text[w])
    /\ (called.op = "set_language" /\ raised = "none")
       => \A i \in 1..Len(_applied_tokens) :
            Resolves(_applied_tokens[i][2]) = Ok(text[_applied_tokens[i][1]])

\* a second, different token applied to a widget that had one
C3_Witness ==
    /\ called.op = "apply"
    /\ raised = "none"
    /\ DictHas(called.applied, called.args[2])
    /\ DictGet(called.applied, called.args[2]) # called.args[1]
    /\ DictGet(_applied_tokens, called.args[2]) = called.args[1]
    /\ Len(_applied_tokens) = 1

\* the translator set_language(lang_code) must leave: the catalog of the first
\* candidate of the fallback chain that has a file, else Dummy for "dummy", else
\* the passthrough translator
ExpectedTranslator(lang_code) ==
    LET chain == expand_lang(lang_code)
        found == {i \in 1..Len(chain) : chain[i] \in installed}
    IN  IF found # {}
        THEN [lang |-> chain[CHOOSE i \in found : \A j \in found : i <= j],
              kind |-> "GNUTranslations"]
        ELSE IF lang_code = "dummy" THEN [lang |-> "", kind |-> "DummyTranslations"]
        ELSE [lang |-> "", kind |-> "NullTranslations"]

\* C7: after set_language(code) the active translator is the one the code and the
\* installed catalogs determine, whatever translator was active before.
C7_TranslatorDeterminedByCode ==
    called.op = "set_language" => _TRANSLATOR = ExpectedTranslator(called.args[1])

\* set_language("fr_FR") with fr_FR.mo and fr.mo both installed takes fr_FR.mo
C7_Witness ==
    /\ called.op = "set_language"
    /\ called.args = <<"fr_FR">>
    /\ {"fr_FR", "fr"} \subseteq installed
    /\ _TRANSLATOR = GNUTranslations("fr_FR")
    /\ steps > 1

\* the callables invoked during the last call, in order: by the loop of
\* set_language, by add_callback, or by either
Invoked(kinds) ==
    LET events == SelectSeq(trace, LAMBDA e : e[1] \in kinds)
    IN  [k \in 1..Len(events) |-> events[k][2]]

\* the position in the trace of the first invocation by the loop
FirstCall ==
    IF \E k \in 1..Len(trace) : trace[k][1] = "call"
    THEN CHOOSE k \in 1..Len(trace) :
            trace[k][1] = "call" /\ \A j \in 1..(k - 1) : trace[j][1] # "call"
    ELSE Len(trace) + 1

\* every sink bound when the pass started was reloaded before the first callback
\* ran, and the pass reloads no sink after it
SinksBeforeCallbacks ==
    /\ \A i \in 1..Len(called.applied) :
        \E k \in 1..(FirstCall - 1) : trace[k] = <<"text", called.applied[i][1]>>
    /\ \A i \in 1..Len(called.menus) :
        \A j \in 1..Len(called.menus[i][2]) :
            \E k \in 1..(FirstCall - 1) :
                trace[k] = <<"label", called.menus[i][1], called.menus[i][2][j][1]>>
    /\ \A k \in FirstCall..Len(trace) : trace[k][1] \notin {"text", "label"}

\* C4 as stated: in a refresh pass the sinks are reloaded first, and then every
\* registered callback is invoked exactly once, in registration order.
C4_EachCallbackOncePerPass ==
    PassRan
    => /\ SinksBeforeCallbacks
       /\ Invoked({"call", "call_now"}) = _langchange_callback

RECURSIVE SameFields(_, _)
\* same variant, namespace, key, plural key and parameters (as a set of pairs),
\* and for Join tokens children that are the same one by one
SameFields(a, b) ==
    /\ a.type = b.type
    /\ a.namespace = b.namespace
    /\ a.token = b.token
    /\ DictItems(a.parameters) = DictItems(b.parameters)
    /\ a.type = "PluralTransToken" => a.token_plural = b.token_plural
    /\ a.type = "JoinTransToken"
       => /\ Len(a.children) = Len(b.children)
          /\ \A i \in 1..Len(a.children) : SameFields(a.children[i], b.children[i])

\* C8: tokA == tokB is true exactly when the two tokens are of the same variant
\* and have equal namespace, key, plural key and parameters (as a set of
\* key/value pairs) and, for Join tokens, equal children one by one.
C8_EqualIffSameFields ==
    result.op = "eq" => (result.value <=> SameFields(tokA, tokB))

\* C9: tokens that compare equal have equal hashes, a token built again from the
\* same fields equals the first and hashes alike, and this is so in every state
\* of the translator and the translation tables.
C9_EqualTokensHashAlike ==
    /\ eq(tokA, tokB) => hash(tokA) = hash(tokB)
    /\ IsPlain(tokA)
       => /\ eq(tokA, TransToken(tokA.namespace, tokA.token, tokA.parameters))
          /\ hash(tokA) = hash(TransToken(tokA.namespace, tokA.token, tokA.parameters))
    /\ tokA.type = "PluralTransToken"
       => eq(tokA, PluralTransToken(tokA.namespace, tokA.token, tokA.parameters,
                                    tokA.token_plural))
    /\ tokA.type = "JoinTransToken"
       => eq(tokA, JoinTransToken(tokA.namespace, tokA.token, tokA.parameters,
                                  tokA.children, tokA.sort))
    /\ result.op = "eq" => result.value = eq(tokA, tokB)
    /\ result.op = "hash"
       => /\ result.value = <<hash(tokA), hash(tokB)>>
          /\ eq(tokA, tokB) => result.value[1] = result.value[2]

\* hashes taken, after a language change and a load of basemodui.txt, of two
\* equal tokens whose parameters were given in different orders
C9_Witness ==
    /\ result.op = "hash"
    /\ tokA = ui(S_Hi, P_axby)
    /\ tokB = ui(S_Hi, P_byax)
    /\ eq(tokA, tokB)
    /\ result.value[1] = result.value[2]
    /\ _TRANSLATOR.kind = "GNUTranslations"
    /\ DictHas(TRANSLATIONS, NS_GAME)

\* C10: format(**kwargs) returns a token of the same variant with the same
\* namespace, key, plural key, children and sort; its parameters are those of
\* the original with those of kwargs on top, a name in both taking the value of
\* kwargs; the original is as it was; a Plural token given its n this way
\* resolves where it could not before.
C10_FormatMergesParameters ==
    result.op = "format"
    => LET self == result.args[1]
           kwargs == result.args[2]
           new == result.value
       IN  /\ self = tokA
           /\ new.type = self.type
           /\ new.namespace = self.namespace
           /\ new.token = self.token
           /\ self.type = "PluralTransToken" => new.token_plural = self.token_plural
           /\ self.type = "JoinTransToken"
              => new.children = self.children /\ new.sort = self.sort
           /\ \A i, j \in 1..Len(new.parameters) :
                new.parameters[i][1] = new.parameters[j][1] => i = j
           /\ \A i \in 1..Len(kwargs) : <<kwargs[i][1], kwargs[i][2]>> \in DictItems(new.parameters)
           /\ \A i \in 1..Len(self.parameters) :
                ~DictHas(kwargs, self.parameters[i][1])
                => self.parameters[i] \in DictItems(new.parameters)
           /\ DictItems(new.parameters) \subseteq DictItems(self.parameters) \cup DictItems(kwargs)
           /\ (self.type = "PluralTransToken" /\ DictHas(kwargs, S_n))
              => str(new, _TRANSLATOR, TRANSLATIONS).ok

\* a Plural token holding n=1 formatted with n=2
C10_Witness ==
    /\ result.op = "format"
    /\ tokA = ui_plural(S_Hi, S_Zz, P_n1)
    /\ result.args[2] = P_n2
    /\ result.value.parameters = P_n2
    /\ str(result.value, _TRANSLATOR, TRANSLATIONS).ok

\* the strings parts with the string sep between consecutive ones
Between(sep, parts) ==
    LET RECURSIVE from(_)
        from(i) == IF i > Len(parts) THEN << >>
                   ELSE IF i = Len(parts) THEN parts[i]
                   ELSE parts[i] \o sep \o from(i + 1)
    IN  from(1)

\* the orders of the strings items in which no string precedes a lesser one
Sorted(items) ==
    {[i \in 1..Len(items) |-> items[f[i]]] :
        f \in {g \in [1..Len(items) -> 1..Len(items)] :
                /\ \A i, j \in 1..Len(items) : g[i] = g[j] => i = j
                /\ \A i, j \in 1..Len(items) :
                    i < j => ~StrLess(items[g[j]], items[g[i]])}}

\* C11: str() of a Join token whose children resolve is the children's strings,
\* in construction order or, with sort, in code point order of the strings, with
\* the string of the separator (the token's own namespace, key and parameters
\* resolved as a plain token) between them; with no child it is the empty
\* string and with one child that child's string, whatever the separator.
C11_JoinConcatenatesChildren ==
    (/\ result.op = "str"
     /\ tokA.type = "JoinTransToken"
     /\ \A i \in 1..Len(tokA.children) : Resolves(tokA.children[i]).ok)
    => LET sep == Resolves(TransToken(tokA.namespace, tokA.token, tokA.parameters))
           items == [i \in 1..Len(tokA.children) |-> Resolves(tokA.children[i]).val]
       IN  /\ result.value.ok
           /\ Len(items) = 0 => result.value.val = << >>
           /\ Len(items) = 1 => result.value.val = items[1]
           /\ sep.ok
              => \E parts \in (IF tokA.sort THEN Sorted(items) ELSE {items}) :
                    result.value.val = Between(sep.val, parts)

\* C12: str() of a Plural token without an n parameter raises the ValueError
\* that names the missing n, in every namespace, for an empty key and under
\* every translator.
C12_PluralWithoutNRaises ==
    (/\ result.op = "str"
     /\ tokA.type = "PluralTransToken"
     /\ ~DictHas(tokA.parameters, S_n))
    => result.value = Raise("ValueError: Plural token requires n")

\* str() of a GAME Plural token without n while the Dummy translator is active
C12_Witness ==
    /\ result.op = "str"
    /\ tokA = PluralTransToken(NS_GAME, S_Hi, << >>, S_Zz)
    /\ _TRANSLATOR.kind = "DummyTranslations"
    /\ result.value = Raise("ValueError: Plural token requires n")

\* C13 as stated: once load_basemodui has been called, with a file found or
\* not, every later call of it leaves the translation tables as they were.
C13_LoadOnceAttempted ==
    (called.op = "load_basemodui" /\ called.attempted)
    => TRANSLATIONS = called.tables

\* C13: once a load_basemodui call has found its file, the GAME table is there,
\* with entries or without, and every later call leaves the tables as they
\* were, whatever its argument; a call that finds no file leaves the tables
\* without a GAME table, and a later call that finds a file fills it.
C13_LoadOnceFileFound ==
    /\ (called.op = "load_basemodui" /\ DictHas(called.tables, NS_GAME))
       => TRANSLATIONS = called.tables
    /\ (called.op = "load_basemodui" /\ ~DictHas(called.tables, NS_GAME))
       => IF isfile(called.args[1])
          THEN /\ DictHas(TRANSLATIONS, NS_GAME)
               /\ DictGet(TRANSLATIONS, NS_GAME)
                    = read_lines(BasemodFile(called.args[1]), << >>)
          ELSE TRANSLATIONS = called.tables
    /\ called.op \notin {"load_basemodui", "import"} => TRANSLATIONS = called.tables

\* a second load, of a file with other lines, after one that filled the table
C13_Witness ==
    /\ called.op = "load_basemodui"
    /\ called.attempted
    /\ called.args = <<"other.txt">>
    /\ DictHas(called.tables, NS_GAME)
    /\ DictHas(DictGet(TRANSLATIONS, NS_GAME), S_PETI_k)

\* C14: str() of a Plain or Join token returns a string and never raises,
\* whatever the namespace, key, parameters, tables and translator.
C14_StrNeverRaises ==
    (result.op = "str" /\ tokA.type \in {"TransToken", "JoinTransToken"})
    => result.value.ok

\* C15: str() of a Plain token whose key is empty or only whitespace is the
\* empty string, under every translator and in every namespace.
C15_BlankKeyResolvesEmpty ==
    (/\ result.op = "str"
     /\ IsPlain(tokA)
     /\ tokA.token = << >> \/ isspace(tokA.token))
    => result.value = Ok(<< >>)

\* C16: bool() of a token of any class is false exactly when its key is empty
\* or has only whitespace characters; namespace, parameters, children and the
\* translator play no part.
C16_BoolIsKeyNotBlank ==
    result.op = "bool"
    => (result.value <=> \E i \in 1..Len(tokA.token) : tokA.token[i] \notin {" ", "\t", "\n"})

\* bool() of a Join token with an empty key and a child, under a loaded catalog
C16_Witness ==
    /\ result.op = "bool"
    /\ tokA.type = "JoinTransToken"
    /\ tokA.token = << >>
    /\ Len(tokA.children) = 1
    /\ _TRANSLATOR.kind = "GNUTranslations"
    /\ result.value = FALSE

\* C17: add_callback(fn, call) puts fn at the end of the callback list and calls
\* it at once, one time, exactly when call is true; no call of any operation
\* takes a callable off the list; every set_language call that returns has
\* invoked every callable that was on the list when it started.
C17_CallbackStaysAndRuns ==
    /\ (called.op = "add_callback" /\ raised = "none")
       => /\ Len(_langchange_callback) > Len(called.callbacks)
          /\ _langchange_callback[Len(called.callbacks) + 1] = called.args[1]
          /\ IF called.args[2]
             THEN /\ Len(trace) > 0
                  /\ trace[1] = <<"call_now", called.args[1]>>
                  /\ \A k \in 2..Len(trace) : trace[k] # <<"call_now", called.args[1]>>
             ELSE trace = << >>
    /\ called.op # "import"
       => /\ Len(_langchange_callback) >= Len(called.callbacks)
          /\ SubSeq(_langchange_callback, 1, Len(called.callbacks)) = called.callbacks
    /\ (called.op = "set_language" /\ raised = "none")
       => /\ Len(Invoked({"call"})) >= Len(called.callbacks)
          /\ \A i \in 1..Len(called.callbacks) : Invoked({"call"})[i] = called.callbacks[i]

\* the token associated with entry index of menu in the registry menus: a
\* sequence of one token, or none
Assoc(menus, menu, index) ==
    IF DictHas(menus, menu) /\ DictHas(DictGet(menus, menu), index)
    THEN <<DictGet(DictGet(menus, menu), index)>>
    ELSE << >>

\* C18: apply_menu renders the entry and sets the association of its (menu,
\* index) pair, and clear_stored_menu removes the associations of its menu;
\* each leaves the associations of every other entry, of every other menu and
\* of every widget as they were; set_language reloads only entries that have an
\* association when it starts.
C18_MenuEntriesKeyedByMenuAndIndex ==
    /\ (called.op = "apply_menu" /\ raised = "none")
       => /\ Resolves(called.args[1]) = Ok(labels[called.args[2]][called.args[3]])
          /\ Assoc(_applied_menu_tokens, called.args[2], called.args[3]) = <<called.args[1]>>
          /\ \A m \in Menus, i \in MenuIndexes :
                <<m, i>> # <<called.args[2], called.args[3]>>
                => Assoc(_applied_menu_tokens, m, i) = Assoc(called.menus, m, i)
          /\ _applied_tokens = called.applied
    /\ called.op = "clear_stored_menu"
       => /\ ~DictHas(_applied_menu_tokens, called.args[1])
          /\ \A m \in Menus \ {called.args[1]}, i \in MenuIndexes :
                Assoc(_applied_menu_tokens, m, i) = Assoc(called.menus, m, i)
          /\ _applied_tokens = called.applied
          /\ trace = << >>
    /\ called.op = "set_language"
       => \A m \in Menus, i \in MenuIndexes :
            TraceHas(<<"label", m, i>>) => Assoc(called.menus, m, i) # << >>

\* clear_stored_menu of a menu with an entry while another menu has one
C18_Witness ==
    /\ called.op = "clear_stored_menu"
    /\ Assoc(called.menus, called.args[1], 0) # << >>
    /\ ~DictHas(_applied_menu_tokens, called.args[1])
    /\ \E m \in Menus \ {called.args[1]} : Assoc(_applied_menu_tokens, m, 1) # << >>

\* C19: a widget or menu that was collected has no association in the registry
\* and nothing is resolved for it or written into it by any later call; its
\* collection leaves the associations of all other sinks as they were.
C19_CollectedSinkLeavesRegistry ==
    /\ \A sink \in called.gone :
        /\ ~DictHas(_applied_tokens, sink)
        /\ ~DictHas(_applied_menu_tokens, sink)
        /\ \A k \in 1..Len(trace) :
            trace[k][1] \in {"text", "label", "applied", "applied_menu"}
            => trace[k][2] # sink
    /\ called.op = "discard"
       => /\ \A w \in Widgets \ {called.args[1]} :
                /\ DictHas(_applied_tokens, w) <=> DictHas(called.applied, w)
                /\ DictHas(_applied_tokens, w)
                   => DictGet(_applied_tokens, w) = DictGet(called.applied, w)
          /\ \A m \in Menus \ {called.args[1]}, i \in MenuIndexes :
                Assoc(_applied_menu_tokens, m, i) = Assoc(called.menus, m, i)

\* a refresh pass under the fr catalog after the collection of a widget bound
\* to 'Hi': the text it had is still the one written when it was bound
C19_Witness ==
    /\ PassRan
    /\ "w1" \in called.gone
    /\ _TRANSLATOR = GNUTranslations("fr")
    /\ text["w1"] = S_Hi

\* the last call was str() of a token with a key, outside the untranslated
\* namespace, while the Dummy translator was active
DummyCase ==
    /\ result.op = "str"
    /\ _TRANSLATOR.kind = "DummyTranslations"
    /\ tokA.token # << >>
    /\ tokA.namespace # NS_UNTRANSLATED

\* a Plural token whose n parameter is there and is an integer
HasN(token) == DictHas(token.parameters, S_n) /\ int(DictGet(token.parameters, S_n)).ok

\* C20 as stated: under the Dummy translator str() of a Plain token is its key
\* with letters, digits and braces replaced by '#' and the other characters
\* kept, then formatted with the parameters if there are any; str() of a Plural
\* token is as long as its singular key.
C20_DummyKeepsPunctuation ==
    DummyCase
    => /\ IsPlain(tokA)
          => result.value =
                Formatted([i \in 1..Len(tokA.token) |->
                            IF isalnum(tokA.token[i]) \/ tokA.token[i] \in {"{", "}"}
                            THEN "#" ELSE tokA.token[i]],
                          tokA.parameters)
       /\ (tokA.type = "PluralTransToken" /\ HasN(tokA))
          => result.value.ok /\ Len(result.value.val) = Len(tokA.token)

\* C20: under the Dummy translator str() of a Plain token is one '#' for each
\* character of its key, whatever the character, and the parameters are not
\* substituted; str() of a Plural token with an integer n is one '#' for each
\* character of its singular key, for every n.
C20_DummyIsHashesOfKeyLength ==
    DummyCase
    => /\ IsPlain(tokA)
          => result.value = Ok([i \in 1..Len(tokA.token) |-> "#"])
       /\ (tokA.type = "PluralTransToken" /\ HasN(tokA))
          => result.value = Ok([i \in 1..Len(tokA.token) |-> "#"])

\* str() of ui('Hi {a}', a='x') under the Dummy translator: six '#'
C20_Witness ==
    /\ DummyCase
    /\ tokA = ui(S_HiA, P_ax)
    /\ result.value = Ok(<<"#", "#", "#", "#", "#", "#">>)

\* C21: after set_language("dummy") the active translator is the Dummy
\* translator, whether or not a catalog file dummy.mo is installed.
C21_DummyCodeInstallsDummy ==
    (called.op = "set_language" /\ called.args = <<"dummy">>)
    => _TRANSLATOR = DummyTranslations

\* C22: str() of a Plural token that has an n parameter and a namespace other
\* than UI and UNTRANSLATED raises, for every key and under every translator.
C22_PluralOtherNamespaceRaises ==
    (/\ result.op = "str"
     /\ tokA.type = "PluralTransToken"
     /\ DictHas(tokA.parameters, S_n)
     /\ tokA.namespace \notin {NS_UI, NS_UNTRANSLATED})
    => ~result.value.ok

\* C23 as stated: PluralTransToken(...) with a namespace other than UI and
\* UNTRANSLATED is refused, and no Plural token has such a namespace.
C23_PluralNamespaceCheckedAtConstruction ==
    result.op = "PluralTransToken"
    => IF result.args[1] \in {NS_UI, NS_UNTRANSLATED}
       THEN result.value.ok
       ELSE ~result.value.ok

\* C23: ui_plural builds a Plural token of the UI namespace; the call
\* PluralTransToken(...) checks nothing and returns a Plural token with the
\* namespace, keys and parameters it was given, whatever the namespace.
C23_PluralConstructionUnchecked ==
    /\ result.op = "PluralTransToken"
       => /\ result.value.ok
          /\ result.value.val.type = "PluralTransToken"
          /\ result.value.val.namespace = result.args[1]
          /\ result.value.val.token = result.args[2]
          /\ result.value.val.parameters = result.args[3]
          /\ result.value.val.token_plural = result.args[4]
    /\ result.op = "ui_plural"
       => /\ result.value.ok
          /\ result.value.val.type = "PluralTransToken"
          /\ result.value.val.namespace = NS_UI

\* PluralTransToken('<PORTAL2>', 'Hi', {'n': '1'}, 'Zz') returned a token
C23_Witness ==
    /\ result.op = "PluralTransToken"
    /\ result.args[1] = NS_GAME
    /\ result.value = Ok(PluralTransToken(NS_GAME, S_Hi, P_n1, S_Zz))

\* C24: join called on a Plural token raises NotImplementedError, whatever the
\* children and the sort flag, and returns no Join token; calling ui,
\* ui_plural, untranslated or from_valve on the Plural class raises.
C24_PluralCannotJoin ==
    /\ (result.op = "join" /\ tokA.type = "PluralTransToken")
       => result.value = Raise("NotImplementedError")
    /\ result.op = "factory" => result.value = Raise("TypeError")

\* join of one child with sort on a Plural token that has its n
C24_Witness ==
    /\ result.op = "join"
    /\ tokA = ui_plural(S_Hi, S_Zz, P_n1)
    /\ result.args[2] = <<tokB>>
    /\ result.args[3]
    /\ result.value = Raise("NotImplementedError")

IsPlaceholderOf(out, message) ==
    /\ Len(out) = Len(message)
    /\ \A i \in 1..Len(message) :
        out[i] = IF isalnum(message[i]) \/ message[i] = "{" \/ message[i] = "}"
                 THEN "#" ELSE message[i]

\* C26: DummyTranslations.gettext(message) is as long as message, with '#' where
\* message has a letter, a digit or a brace and the character of message
\* elsewhere; ngettext(singular, plural, n) is that of singular when n is 1 and
\* that of plural for every other n.
C26_DummyPlaceholder ==
    /\ result.op = "gettext" => IsPlaceholderOf(result.value, result.args[1])
    /\ result.op = "ngettext"
       => IsPlaceholderOf(result.value,
                          IF result.args[3] = 1 THEN result.args[1] ELSE result.args[2])

\* ngettext('Hi {a}', '{a} Yo', 0): the placeholder of the plural, space kept
C26_Witness ==
    /\ result.op = "ngettext"
    /\ result.args = <<S_HiA, S_YoA, 0>>
    /\ result.value = <<"#", "#", "#", " ", "#", "#">>

\* the parts of line i of the file at basemod_loc
LineParts(basemod_loc, i) == split(BasemodFile(basemod_loc)[i], "\"", << >>)

\* the lines of the file at basemod_loc that hold an entry: five parts and a
\* key with the reserved prefix
UsableLines(basemod_loc) ==
    {i \in 1..Len(BasemodFile(basemod_loc)) :
        /\ Len(LineParts(basemod_loc, i)) = 5
        /\ startswith(LineParts(basemod_loc, i)[2], PETI_KEY_PREFIX)}

\* a load_basemodui call that found no GAME table and an existing file
FirstLoadOf(basemod_loc) ==
    /\ called.op = "load_basemodui"
    /\ called.args = <<basemod_loc>>
    /\ ~DictHas(called.tables, NS_GAME)
    /\ isfile(basemod_loc)

\* C27: after the first load_basemodui of an existing file nothing is raised
\* and the GAME table holds exactly one entry for each key of a line that
\* splits on '"' into five parts and starts with PORTAL2_PuzzleEditor, and no
\* other entry; its value is the value of the last such line with that key,
\* every \' replaced by '.
C27_LoadKeepsUsableLines ==
    \A basemod_loc \in BasemodLocs :
        FirstLoadOf(basemod_loc)
        => /\ raised = "none"
           /\ DictHas(TRANSLATIONS, NS_GAME)
           /\ LET table == DictGet(TRANSLATIONS, NS_GAME)
                  usable == UsableLines(basemod_loc)
              IN  /\ \A i \in usable :
                        Cardinality({j \in 1..Len(table) :
                                       table[j][1] = LineParts(basemod_loc, i)[2]}) = 1
                  /\ \A j \in 1..Len(table) :
                        \E i \in usable :
                            /\ LineParts(basemod_loc, i)[2] = table[j][1]
                            /\ table[j][2] = unescape(LineParts(basemod_loc, i)[4])
                            /\ \A l \in usable :
                                  LineParts(basemod_loc, l)[2] = table[j][1] => l <= i

\* basemodui.txt loaded first: the repeated key has its last value, the
\* apostrophe is unescaped, the six-part line and the other key left nothing
C27_Witness ==
    /\ FirstLoadOf("basemodui.txt")
    /\ DictGet(TRANSLATIONS, NS_GAME) = <<<<S_PETI_k, S_Ab>>, <<S_PETI_m, <<"Z", "'", "z">>>>>>

\* every call so far was an apply, apply_menu, set_language or load_basemodui
\* that returned without raising
OnlyBindsAndLoads ==
    /\ called.clean
    /\ raised = "none"
    /\ called.op \in {"import", "apply", "apply_menu", "set_language", "load_basemodui"}

\* C28: after any sequence of apply, apply_menu, set_language and
\* load_basemodui calls that all returned without error, every bound widget and
\* menu entry shows what its token resolves to in the current translator and
\* tables, a sink bound to a GAME token included once the GAME table is loaded.
C28_SinksAlwaysCurrent == OnlyBindsAndLoads => SinksCurrent

\* text is "[[name]]rest"
IsBracket(string, name, rest) ==
    /\ string = Bracket(name, rest)
    /\ \A i \in 1..Len(name) - 1 : SubSeq(name, i, i + 1) # <<"]", "]">>
    /\ ~(name # << >> /\ rest # << >> /\ name[Len(name)] = "]" /\ rest[1] = "]")

\* the names and rests a text can be cut into
Pieces(string) == {SubSeq(string, i, j) : i \in 1..Len(string) + 1, j \in 0..Len(string)}

\* C29: the token TransToken.parse(package, text) returns has the bracketed
\* name as its namespace only for a text "[[name]] rest" whose name neither
\* starts with '<' nor ends with '>' (UNTRANSLATED for the empty name), GAME only
\* for a text that starts with PORTAL2_PuzzleEditor, and the package of the
\* caller otherwise: for "[[<X>]] rest" and for a text with no "]]" it is the
\* token (package, text).
C29_ParseKeepsReservedNamespaces ==
    result.op = "parse"
    => LET package == result.args[1]
           string == result.args[2]
           token == result.value.val
           reserved(name) == startswith(name, <<"<">>) \/ endswith(name, <<">">>)
       IN  IF \E name \in Pieces(string), rest \in Pieces(string) :
                 IsBracket(string, name, rest) /\ ~reserved(name)
           THEN \E name \in Pieces(string), rest \in Pieces(string) :
                    /\ IsBracket(string, name, rest)
                    /\ token = TransToken(IF name = << >> THEN NS_UNTRANSLATED ELSE name,
                                          lstrip(rest), EmptyMapping)
           ELSE IF startswith(string, <<"[", "[">>)
           THEN token = TransToken(package, string, EmptyMapping)
           ELSE IF startswith(string, PETI_KEY_PREFIX)
           THEN token = TransToken(NS_GAME, string, EmptyMapping)
           ELSE token = TransToken(package, string, EmptyMapping)

\* the sinks bound when the last call was made, in the order the reload loops
\* visit them: <<1, i, 0>> for item i of the widgets, <<2, i, j>> for item j of
\* menu i
PassSinks ==
    {<<1, i, 0>> : i \in 1..Len(called.applied)}
    \cup UNION {{<<2, i, j>> : j \in 1..Len(called.menus[i][2])} : i \in 1..Len(called.menus)}

PassBefore(p, q) ==
    \/ p[1] < q[1]
    \/ p[1] = q[1] /\ p[2] < q[2]
    \/ p[1] = q[1] /\ p[2] = q[2] /\ p[3] < q[3]

\* the token of the sink, resolved under the translator the code asks for
PassResolves(p) ==
    str(IF p[1] = 1 THEN called.applied[p[2]][2] ELSE called.menus[p[2]][2][p[3]][2],
        ExpectedTranslator(called.args[1]), called.tables)

\* what the sink shows in the state s of text and labels
PassShown(p, widget_text, menu_labels) ==
    IF p[1] = 1 THEN widget_text[called.applied[p[2]][1]]
    ELSE menu_labels[called.menus[p[2]][1]][called.menus[p[2]][2][p[3]][1]]

\* C30: when the token of some bound widget or menu entry cannot be resolved
\* under the new translator, set_language raises that error with the new
\* translator installed; the sinks the loops visit before the failing one show
\* their new resolution, the failing one and every later one show what they
\* showed before the call, and no registered callable is invoked.
C30_NoRollbackOnRaise ==
    (called.op = "set_language" /\ \E p \in PassSinks : ~PassResolves(p).ok)
    => LET failing == {p \in PassSinks : ~PassResolves(p).ok}
           first == CHOOSE p \in failing : \A q \in failing : p = q \/ PassBefore(p, q)
       IN  /\ raised = PassResolves(first).err
           /\ _TRANSLATOR = ExpectedTranslator(called.args[1])
           /\ \A p \in PassSinks :
                IF PassBefore(p, first)
                THEN PassShown(p, text, labels) = PassResolves(p).val
                ELSE PassShown(p, text, labels) = PassShown(p, called.text, called.labels)
           /\ \A k \in 1..Len(trace) : trace[k][1] # "call"
           /\ _langchange_callback = called.callbacks
           /\ _applied_tokens = called.applied
           /\ _applied_menu_tokens = called.menus

\* set_language("de") with w1 bound to 'Hi' and then w2 to 'Hi {a}', which the
\* de catalog renders 'Yo {b}': w1 shows the de text, w2 the old one, and the de
\* translator stays
C30_Witness ==
    /\ called.op = "set_language"
    /\ called.args = <<"de">>
    /\ raised = "KeyError"
    /\ _TRANSLATOR = GNUTranslations("de")
    /\ Len(called.applied) = 2
    /\ called.applied[2] = <<"w2", ui(S_HiA, << <<S_a, S_x>> >>)>>
    /\ called.text["w1"] = S_Hi
    /\ text["w1"] = S_Zz
    /\ text["w2"] = <<"H", "i", " ", "x">>

====
